---- MODULE Spec2Model ----
(***************************************************************************)
(* State-machine model of the MotionBlur present interceptor.              *)
(*                                                                         *)
(* Four builds of the same design are in the sources:                      *)
(*   "blur"   src/src/main.cpp            (initGL / render / hook)         *)
(*   "neon"   src/unnamed/part_000        (initGL / render / hook)         *)
(*   "zenith" src/unnamed/part_001:1-212  (initGL / render / hook)         *)
(*   "smart"  src/unnamed/part_001:214-459 (initResources / render_effect  *)
(*                                          / hook_swap)                   *)
(* The variable `variant` says which build is loaded in the process.       *)
(*                                                                         *)
(* Two threads run: the Bootstrap worker (init, mainthread) and the host's *)
(* rendering thread, which calls eglSwapBuffers.  The render engine state  *)
(* is the record `eng`, the objects of the GL context are the record `gl`, *)
(* the context's bindings and enables are the record `ctx`.                *)
(***************************************************************************)
EXTENDS Integers, Sequences, FiniteSets, TLC

----------------------------------------------------------------------------
(* Bounds of the model (not program constants).                            *)

\* Most full (re)initialisations of the render engine in one run: every
\* initialisation leaks shader, program and buffer names, so their count
\* is what keeps the GL name space finite.
MaxInits == 2

----------------------------------------------------------------------------
(* Program constants.                                                      *)

\* hook: if(w>100) render(w,h);
THRESHOLD == 100

\* SCALE = 0.5f, kept exact as the fraction SCALE_NUM / SCALE_DEN.
SCALE_NUM == 1
SCALE_DEN == 2

Variants == {"blur", "neon", "zenith", "smart"}

\* Values of the environment the model draws from.
Displays == {1}
Surfaces == {2, 3}
Widths   == {100, 101, 200}
Heights  == {1, 200}
EGLBooleans == {"EGL_TRUE", "EGL_FALSE"}

\* Pointers: the null pointer, the handle of libEGL.so, the address of the
\* real eglSwapBuffers, and the trampoline that the hook provider hands back
\* as the original function.
NULL       == "NULL"
LibEGL     == "libEGL.so"
SwapAddr   == "eglSwapBuffers@libEGL"
Trampoline == "orig_eglSwapBuffers"

\* Names of GL objects that belong to the host: its program, its vertex
\* array and its texture.  glGen* never hands these to the engine.
HostProgram == 91
HostVao     == 92
HostTexture == 93

VARIABLES
    variant,      \* which build is loaded
    bpc,          \* position of the Bootstrap worker thread
    lib,          \* GHandle returned by GlossOpen (0 = null)
    sym,          \* address returned by GlossSymbol (0 = null)
    calls,        \* hook-provider calls made so far: [open, symbol, install, name]
    patched,      \* eglSwapBuffers is redirected to the interceptor (INSTALLED)
    orig,         \* orig / orig_swap: the recorded original function (0 = unset)
    hpc,          \* position of the rendering thread inside the interceptor
    call,         \* d, s, w, h of the current (or last) interceptor invocation
    ret,          \* value returned by the last completed invocation, or "none"
    fwd,          \* calls to the original made by the current (or last) invocation
    ops,          \* what the current (or last) invocation did, in order
    eng,          \* render-engine globals
    gl,           \* objects of the GL context and GL call counters
    lastWrite,    \* history slot written by the last rendered frame (-1: none yet)
    ctx,          \* GL state: [host: on entry of the interceptor, now: current]
    px,           \* one pixel on its way through a fragment shader
    present,      \* how the host's last present call was served
    crashed       \* the host process has crashed

vars == << variant, bpc, lib, sym, calls, patched, orig, hpc, call, ret, fwd,
           ops, eng, gl, lastWrite, ctx, px, present, crashed >>

bootVars == << bpc, lib, sym, calls, patched, orig >>
hookVars == << hpc, call, ret, fwd, ops, eng, gl, lastWrite, ctx, px,
              present >>

----------------------------------------------------------------------------
(* The GL context: object names and the calls the engine makes.            *)

Op(name, x, y) == [op |-> name, a |-> x, b |-> y]

\* glGen* / glCreate*: the lowest name not in use (0 is never a name).
GenName(used) ==
    CHOOSE n \in 1..(Cardinality(used) + 1) :
        n \notin used /\ \A m \in 1..(n - 1) : m \in used

Restrict(f, S) == [x \in S |-> f[x]]

Extend(f, k, v) == [x \in DOMAIN f \cup {k} |-> IF x = k THEN v ELSE f[x]]

\* glDeleteTextures(n, names): silently ignores 0 and unknown names.
glDeleteTextures(g, names) ==
    [g EXCEPT !.tex = Restrict(@, DOMAIN @ \ names),
              !.nDel = @ + Cardinality(names)]

glDeleteFramebuffers(g, names) ==
    [g EXCEPT !.fbo = Restrict(@, DOMAIN @ \ names),
              !.nDel = @ + Cardinality(names)]

glDeleteVertexArrays(g, names) ==
    [g EXCEPT !.vao = @ \ names, !.nDel = @ + Cardinality(names)]

\* Shader and program objects share one name space.
glCreateShaderOrProgram(g) ==
    LET n == GenName(g.sh) IN
    [g EXCEPT !.sh = @ \cup {n}, !.nGen = @ + 1, !.last = n]

glGenVertexArrays(g) ==
    LET n == GenName(g.vao) IN
    [g EXCEPT !.vao = @ \cup {n}, !.nGen = @ + 1, !.last = n]

glGenBuffers(g) ==
    LET n == GenName(g.buf) IN
    [g EXCEPT !.buf = @ \cup {n}, !.nGen = @ + 1, !.last = n]

\* glGenTextures + glTexImage2D(.., w, h, .., 0): a texture of w x h texels
\* whose contents are undefined (no data is passed).  A texture is the
\* triple << width, height, contents >>; the contents are "undefined",
\* "cleared" (the clear colour in every texel), "partial" (the clear colour
\* inside the scissor box, undefined outside) or "image" (drawn or copied
\* to in full).
glGenTexture(g, w, h) ==
    LET n == GenName(DOMAIN g.tex) IN
    [g EXCEPT !.tex = Extend(@, n, << w, h, "undefined" >>),
              !.nGen = @ + 1, !.last = n]

\* glGenFramebuffers + glFramebufferTexture2D(.., tx, 0).
glGenFramebuffer(g, tx) ==
    LET n == GenName(DOMAIN g.fbo) IN
    [g EXCEPT !.fbo = Extend(@, n, tx), !.nGen = @ + 1, !.last = n]

\* What glCheckFramebufferStatus would answer for framebuffer f: the window
\* surface is complete, a framebuffer object is complete when its colour
\* attachment is a live texture of non-zero width and height.
Complete(g, f) ==
    \/ f = 0
    \/ /\ f \in DOMAIN g.fbo
       /\ g.fbo[f] \in DOMAIN g.tex
       /\ g.tex[g.fbo[f]][1] > 0
       /\ g.tex[g.fbo[f]][2] > 0

\* A draw call, a copy or an unscissored clear has written every texel of
\* the colour attachment of framebuffer f; kind names the contents left.
WriteTarget(g, f, kind) ==
    IF f # 0 /\ Complete(g, f)
    THEN [g EXCEPT !.tex[g.fbo[f]][3] = kind]
    ELSE g

----------------------------------------------------------------------------
(* The GL context: bindings and enables, the state the host can see.       *)

\* State of a fresh context that draws on a w x h window surface.
HostDefault(w, h) ==
    [scissor |-> FALSE, depth |-> FALSE, blend |-> FALSE,
     box |-> << w, h >>,
     viewport |-> << w, h >>, fbo |-> 0, rfbo |-> 0,
     prog |-> 0, vao |-> 0, unit |-> 0, tex |-> [u \in {0, 1} |-> 0]]

\* State left by a host that has just drawn its frame with its own objects,
\* the last of them clipped to a quarter of the surface by glScissor (box
\* is the width and height of the scissor box, its origin is 0, 0).
HostBusy(w, h) ==
    [scissor |-> TRUE, depth |-> TRUE, blend |-> TRUE,
     box |-> << w \div 4, h \div 4 >>,
     viewport |-> << w, h >>, fbo |-> 0, rfbo |-> 0,
     prog |-> HostProgram, vao |-> HostVao, unit |-> 1,
     tex |-> [u \in {0, 1} |-> HostTexture]]

\* The GL state the host may be in when it calls eglSwapBuffers.
HostContexts(w, h) == {HostDefault(w, h), HostBusy(w, h)}

\* Outside an invocation of the interceptor the context is the host's.
HostIdle == [host |-> HostDefault(0, 0), now |-> HostDefault(0, 0)]

----------------------------------------------------------------------------
(* The render engine.  Its operators take and return a record             *)
(*   st = [eng    |-> engine globals,   gl  |-> GL objects,               *)
(*         ctx    |-> GL bindings,      ops |-> call log,                 *)
(*         cur, pre |-> the locals of render,                             *)
(*         linkOk |-> whether the driver links the programs this time,    *)
(*         rawOk  |-> whether glGenTextures names a raw texture this time] *)
(* so that a handler's statements compose in program order.               *)

Log(st, o) == [st EXCEPT !.ops = Append(@, o)]

\* (int)(x * SCALE): the product is exact for the sizes used here, and the
\* conversion to int truncates toward zero.
IntScale(x) ==
    IF x >= 0 THEN (x * SCALE_NUM) \div SCALE_DEN
              ELSE -(((-x) * SCALE_NUM) \div SCALE_DEN)

\* glBindFramebuffer(GL_FRAMEBUFFER, f): the draw and the read binding.
glBindFramebuffer(st, f) == [st EXCEPT !.ctx.fbo = f, !.ctx.rfbo = f]

\* glBindVertexArray(a)
glBindVertexArray(st, a) == [st EXCEPT !.ctx.vao = a]

\* glActiveTexture(GL_TEXTURE0 + u); glBindTexture(GL_TEXTURE_2D, t);
glBindTexture(st, u, t) == [st EXCEPT !.ctx.unit = u, !.ctx.tex[u] = t]

\* glViewport(0, 0, w, h)
glViewport(st, w, h) ==
    Log([st EXCEPT !.ctx.viewport = << w, h >>], Op("viewport", w, h))

\* glUseProgram(p): the call is made with whatever id is stored.  GL
\* refuses a program that is not linked (GL_INVALID_OPERATION) and leaves
\* the current program as it was.
glUseProgram(st, p) ==
    IF p \in st.gl.bad
    THEN Log(st, Op("useProgram", p, 0))
    ELSE Log([st EXCEPT !.ctx.prog = p], Op("useProgram", p, 1))

\* A per-fragment test (scissor, depth, blend) is enabled: 1, none is: 0.
TestsOn(c) == IF c.scissor \/ c.depth \/ c.blend THEN 1 ELSE 0

\* glDrawElements(GL_TRIANGLES,6,GL_UNSIGNED_SHORT,0): the log keeps the
\* framebuffer drawn to, the current program, the textures on both units,
\* whether a test is enabled and the viewport.
glDrawElements(st) ==
    [st EXCEPT !.gl = WriteTarget(@, st.ctx.fbo, "image"),
               !.ops = @ \o << Op("draw", st.ctx.fbo, st.ctx.prog),
                               Op("textures", st.ctx.tex[0], st.ctx.tex[1]),
                               Op("state", TestsOn(st.ctx),
                                  st.ctx.viewport) >>]

\* Mutant of releaseOld: only the raw target is released.
releaseOld_rawOnly(st) ==
    IF st.eng.rawTex # 0
    THEN LET e  == st.eng
             g1 == glDeleteTextures(st.gl, {e.rawTex})
             g2 == glDeleteFramebuffers(g1, {e.rawFBO})
         IN  Log([st EXCEPT !.gl = g2], Op("release", 1, 1))
    ELSE st

\* if(rawTex){glDeleteTextures(1,&rawTex); glDeleteFramebuffers(1,&rawFBO);
\*            glDeleteTextures(2,histTex); glDeleteFramebuffers(2,histFBO);
\*            glDeleteVertexArrays(1,&vao);}
\* A deleted object that is bound is unbound (its binding reverts to 0).
releaseOld(st) ==
    IF st.eng.rawTex # 0
    THEN LET e  == st.eng
             c  == st.ctx
             g1 == glDeleteTextures(st.gl, {e.rawTex})
             g2 == glDeleteFramebuffers(g1, {e.rawFBO})
             g3 == glDeleteTextures(g2, {e.histTex[0], e.histTex[1]})
             g4 == glDeleteFramebuffers(g3, {e.histFBO[0], e.histFBO[1]})
             g5 == glDeleteVertexArrays(g4, {e.vao})
             texs == {e.rawTex, e.histTex[0], e.histTex[1]}
             fbos == {e.rawFBO, e.histFBO[0], e.histFBO[1]}
             c1 == [c EXCEPT
                      !.tex  = [u \in {0, 1} |->
                                  IF c.tex[u] \in texs THEN 0 ELSE c.tex[u]],
                      !.fbo  = IF @ \in fbos THEN 0 ELSE @,
                      !.rfbo = IF @ \in fbos THEN 0 ELSE @,
                      !.vao  = IF @ = e.vao THEN 0 ELSE @]
         IN  Log([st EXCEPT !.gl = g5, !.ctx = c1],
                 Op("release", Cardinality(DOMAIN st.gl.tex \ DOMAIN g5.tex),
                               Cardinality(DOMAIN st.gl.fbo \ DOMAIN g5.fbo)))
    ELSE st

\* iW=(int)(w*SCALE); iH=(int)(h*SCALE);
internalRes(st, w, h) ==
    [st EXCEPT !.eng.iW = IntScale(w), !.eng.iH = IntScale(h)]

\* Three shaders are compiled and two programs linked; no compile or link
\* status is read, and the ids are stored whatever the outcome.  When the
\* driver rejects the shared vertex shader, neither program links.
\* gl.bad holds the unlinked programs among those the engine refers to.
compilePrograms(st) ==
    LET g1 == glCreateShaderOrProgram(st.gl)      \* vs
        g2 == glCreateShaderOrProgram(g1)         \* fs1
        g3 == glCreateShaderOrProgram(g2)         \* fs2
        g4 == glCreateShaderOrProgram(g3)         \* progBlur
        g5 == glCreateShaderOrProgram(g4)         \* progDraw
        failed == IF st.linkOk THEN {} ELSE {g4.last, g5.last}
    IN  Log([st EXCEPT !.gl = [g5 EXCEPT !.bad = failed],
                       !.eng.progBlur = g4.last,
                       !.eng.progDraw = g5.last],
            Op("programs", g4.last, g5.last))

\* glGenVertexArrays(1,&vao); glBindVertexArray(vao);
\* glGenBuffers(1,&vb); glGenBuffers(1,&ib);
setupGeometry(st) ==
    LET g1 == glGenVertexArrays(st.gl)
        g2 == glGenBuffers(g1)
        g3 == glGenBuffers(g2)
    IN  Log([st EXCEPT !.gl = g3, !.eng.vao = g1.last, !.ctx.vao = g1.last],
            Op("geometry", g1.last, 0))

\* The lambda t / setupTex: one texture of iW x iH and its framebuffer,
\* both left bound.  which = -1 is the raw target, 0 and 1 are the history
\* slots.
\* When glGenTextures fails it stores nothing, and the calls that follow
\* are made with the value the handle had: glBindTexture of 0 selects the
\* default texture and glFramebufferTexture2D(.., 0, 0) attaches nothing;
\* glBindTexture of an unused non-zero name creates the texture of that
\* name.
setupTex(st, which) ==
    LET e  == st.eng
        fails == which = -1 /\ ~st.rawOk
        g1 == IF ~fails THEN glGenTexture(st.gl, e.iW, e.iH)
              ELSE IF e.rawTex = 0 THEN st.gl
              ELSE [st.gl EXCEPT
                      !.tex = Extend(@, e.rawTex,
                                     << e.iW, e.iH, "undefined" >>)]
        tx == IF fails THEN e.rawTex ELSE g1.last
        g2 == glGenFramebuffer(g1, tx)
        e1 == IF which = -1
              THEN [e EXCEPT !.rawTex = tx, !.rawFBO = g2.last]
              ELSE [e EXCEPT !.histTex[which] = tx,
                             !.histFBO[which] = g2.last]
        c1 == [st.ctx EXCEPT !.tex[st.ctx.unit] = tx,
                             !.fbo = g2.last, !.rfbo = g2.last]
    IN  Log(Log([st EXCEPT !.gl = g2, !.eng = e1, !.ctx = c1],
                Op("teximage", e.iW, e.iH)),
            Op("target", which, tx))

\* glBindFramebuffer(GL_FRAMEBUFFER,histFBO[i]); glClearColor; glClear
\* ("smart" clears inside its loop, with the framebuffer setupTex left
\* bound, which is histFBO[i] too.)
\* glClear is subject to the scissor test: with the test enabled it writes
\* the texels inside the scissor box only.
clearHistory(st, i) ==
    LET f == st.eng.histFBO[i]
        t == st.gl.tex[st.gl.fbo[f]]
        whole == ~st.ctx.scissor
                 \/ (st.ctx.box[1] >= t[1] /\ st.ctx.box[2] >= t[2])
    IN  Log([glBindFramebuffer(st, f) EXCEPT
               !.gl = WriteTarget(@, f, IF whole THEN "cleared" ELSE "partial")],
            Op("clear", i, f))

\* Mutant of storeSize: the initialisation also resets the ping index.
storeSize_resetPing(st, w, h, v) ==
    [st EXCEPT !.eng.sW = w, !.eng.sH = h,
               !.eng.isFirstFrame = IF v = "smart" THEN TRUE ELSE @,
               !.eng.ping = 0,
               !.gl.nInit = @ + 1]

\* sW=w; sH=h;   ("smart" also: isFirstFrame = true;)
\* The ping index is not assigned anywhere in the initialisation.
storeSize(st, w, h, v) ==
    [st EXCEPT !.eng.sW = w, !.eng.sH = h,
               !.eng.isFirstFrame = IF v = "smart" THEN TRUE ELSE @,
               !.gl.nInit = @ + 1]

\* The statements of initGL / initResources, in program order.
\* "blur", "neon", "zenith": glUseProgram(progBlur) after the link;
\*     t(raw); t(hist0); t(hist1); clear 0; clear 1.
\* "smart": glBindVertexArray(0) after the geometry;
\*     setupTex(raw); for i in 0..1 { setupTex(hist i); clear }.
initGL(v) ==
    << "enterInit", "releaseOld", "internalRes", "compilePrograms" >>
    \o (IF v = "smart"
        THEN << "setupGeometry", "unbindVao" >>
        ELSE << "usePass1", "setupGeometry" >>)
    \o << "setupRaw" >>
    \o (IF v = "smart"
        THEN << "setupHist0", "clear0", "setupHist1", "clear1" >>
        ELSE << "setupHist0", "setupHist1", "clear0", "clear1" >>)
    \o << "storeSize" >>

\* Mutant of NeedsInit: the handle is not tested.
NeedsInit_sizeOnly(e, w, h) == w # e.sW \/ h # e.sH

\* Mutant of NeedsInit: the sizes are not compared at all.
NeedsInit_handleOnly(e, w, h) == e.rawTex = 0

\* Mutant of NeedsInit: the height is left out of the size check.
NeedsInit_widthOnly(e, w, h) == w # e.sW \/ e.rawTex = 0

\* Mutant of NeedsInit: the handle test is inverted (rawTex for !rawTex).
NeedsInit_inverted(e, w, h) == w # e.sW \/ h # e.sH \/ e.rawTex # 0

\* if(w!=sW || h!=sH || !rawTex) initGL(w,h);
NeedsInit(e, w, h) == w # e.sW \/ h # e.sH \/ e.rawTex = 0

\* glDisable(GL_SCISSOR_TEST); glDisable(GL_DEPTH_TEST); glDisable(GL_BLEND);
disableTests(st) ==
    Log([st EXCEPT !.ctx.scissor = FALSE, !.ctx.depth = FALSE,
                   !.ctx.blend = FALSE],
        Op("disable", 0, 0))

\* glBindFramebuffer(GL_READ_FRAMEBUFFER,0);
\* glBindFramebuffer(GL_DRAW_FRAMEBUFFER,rawFBO); glBlitFramebuffer(...)
\* The log keeps the framebuffer copied to and whether a test is enabled.
blit(st) ==
    Log([st EXCEPT !.ctx.rfbo = 0, !.ctx.fbo = st.eng.rawFBO,
                   !.gl = WriteTarget(@, st.eng.rawFBO, "image")],
        Op("blit", st.eng.rawFBO, TestsOn(st.ctx)))

\* Mutant of selectSlots: the previous slot is taken to be the current one.
selectSlots_same(st) == [st EXCEPT !.cur = st.eng.ping, !.pre = st.eng.ping]

\* int cur=ping, pre=1-ping;
selectSlots(st) == [st EXCEPT !.cur = st.eng.ping, !.pre = 1 - st.eng.ping]

\* "smart" on the first frame after an initialisation runs pass 1 with the
\* draw program on the raw texture alone.
FirstFrame(st, v) == v = "smart" /\ st.eng.isFirstFrame

\* Mutant of accumulate: the first-frame flag is not cleared.
accumulate_keepFlag(st, v) ==
    IF FirstFrame(st, v)
    THEN glDrawElements(Log(st, Op("copy", st.cur, -1)))
    ELSE glDrawElements(Log(st, Op("accum", st.cur, st.pre)))

\* Pass 1, the draw call.  "smart" on its first frame copies raw into
\* history[cur] and reads no history; every other frame blends raw with
\* history[pre] into history[cur].
accumulate(st, v) ==
    IF FirstFrame(st, v)
    THEN glDrawElements(Log([st EXCEPT !.eng.isFirstFrame = FALSE],
                            Op("copy", st.cur, -1)))
    ELSE glDrawElements(Log(st, Op("accum", st.cur, st.pre)))

\* Mutant of texCur: pass 2 samples the slot pass 1 read.
texCur_previous(st) == glBindTexture(st, 0, st.eng.histTex[st.pre])

\* glActiveTexture(GL_TEXTURE0); glBindTexture(GL_TEXTURE_2D,histTex[cur]);
texCur(st) == glBindTexture(st, 0, st.eng.histTex[st.cur])

\* Pass 2, the draw call: history[cur] to framebuffer 0.
outputPass(st) == glDrawElements(Log(st, Op("output", st.cur, 0)))

\* Mutant of flipPing: the index is left as it was.
flipPing_none(st) == st

\* ping=pre;
flipPing(st) ==
    Log([st EXCEPT !.eng.ping = st.pre], Op("flip", st.eng.ping, st.pre))

\* Mutant of renderPasses: the index is flipped between the two passes.
renderPasses_flipEarly(v) ==
    << "disable", "blit", "selectSlots" >>
    \o (IF v = "smart"
        THEN << "bindVao", "viewportInternal", "bindHistCur" >>
        ELSE << "bindHistCur", "viewportInternal", "bindVao" >>)
    \o << "usePass1", "texRaw", "texPrev", "accumulate", "flipPing",
          "bindDefault", "viewportFull", "useDraw", "texCur", "output" >>
    \o (IF v = "smart" THEN << "unbindVao" >> ELSE << >>)

\* Mutant of renderPasses: the tests are disabled after the copy.
renderPasses_lateDisable(v) ==
    << "blit", "disable", "selectSlots" >>
    \o (IF v = "smart"
        THEN << "bindVao", "viewportInternal", "bindHistCur" >>
        ELSE << "bindHistCur", "viewportInternal", "bindVao" >>)
    \o << "usePass1", "texRaw", "texPrev", "accumulate",
          "bindDefault", "viewportFull", "useDraw", "texCur", "output" >>
    \o (IF v = "smart" THEN << "unbindVao" >> ELSE << >>)
    \o << "flipPing" >>

\* The statements of render / render_effect after the size check.
renderPasses(v) ==
    << "disable", "blit", "selectSlots" >>
    \o (IF v = "smart"
        THEN << "bindVao", "viewportInternal", "bindHistCur" >>
        ELSE << "bindHistCur", "viewportInternal", "bindVao" >>)
    \o << "usePass1", "texRaw", "texPrev", "accumulate",
          "bindDefault", "viewportFull", "useDraw", "texCur", "output" >>
    \o (IF v = "smart" THEN << "unbindVao" >> ELSE << >>)
    \o << "flipPing" >>

\* One statement of the engine.
Exec(st, i, w, h, v) ==
    CASE i = "enterInit"        -> Log(st, Op("init", w, h))
      [] i = "releaseOld"       -> releaseOld(st)
      [] i = "internalRes"      -> internalRes(st, w, h)
      [] i = "compilePrograms"  -> compilePrograms(st)
      [] i = "setupGeometry"    -> setupGeometry(st)
      [] i = "setupRaw"         -> setupTex(st, -1)
      [] i = "setupHist0"       -> setupTex(st, 0)
      [] i = "setupHist1"       -> setupTex(st, 1)
      [] i = "clear0"           -> clearHistory(st, 0)
      [] i = "clear1"           -> clearHistory(st, 1)
      [] i = "storeSize"        -> storeSize(st, w, h, v)
      [] i = "disable"          -> disableTests(st)
      [] i = "blit"             -> blit(st)
      [] i = "selectSlots"      -> selectSlots(st)
      [] i = "bindHistCur"      -> glBindFramebuffer(st, st.eng.histFBO[st.cur])
      [] i = "viewportInternal" -> glViewport(st, st.eng.iW, st.eng.iH)
      [] i = "bindVao"          -> glBindVertexArray(st, st.eng.vao)
      [] i = "unbindVao"        -> glBindVertexArray(st, 0)
      [] i = "usePass1"         -> glUseProgram(st, IF FirstFrame(st, v)
                                                    THEN st.eng.progDraw
                                                    ELSE st.eng.progBlur)
      [] i = "texRaw"           -> glBindTexture(st, 0, st.eng.rawTex)
      [] i = "texPrev"          -> IF FirstFrame(st, v) THEN st
                                   ELSE glBindTexture(st, 1,
                                                      st.eng.histTex[st.pre])
      [] i = "accumulate"       -> accumulate(st, v)
      [] i = "bindDefault"      -> glBindFramebuffer(st, 0)
      [] i = "viewportFull"     -> glViewport(st, w, h)
      [] i = "useDraw"          -> glUseProgram(st, st.eng.progDraw)
      [] i = "texCur"           -> texCur(st)
      [] i = "output"           -> outputPass(st)
      [] i = "flipPing"         -> flipPing(st)

RECURSIVE Run(_, _, _, _, _)
Run(st, prog, w, h, v) ==
    IF prog = << >> THEN st
    ELSE Run(Exec(st, Head(prog), w, h, v), Tail(prog), w, h, v)

render(st, w, h, v) ==
    Run(st, (IF NeedsInit(st.eng, w, h) THEN initGL(v) ELSE << >>)
            \o renderPasses(v), w, h, v)

----------------------------------------------------------------------------
(* Initial state: the library is mapped, its constructor has not run yet.  *)

InitEngine ==
    /\ variant \in Variants
    /\ bpc = "unloaded"
    /\ lib = NULL
    /\ sym = NULL
    /\ calls = [open |-> 0, symbol |-> 0, install |-> 0, names |-> {}]
    /\ patched = FALSE
    /\ orig = NULL
    /\ hpc = "idle"
    /\ call = [d |-> 0, s |-> 0, w |-> 0, h |-> 0]
    /\ ret = "none"
    /\ fwd = << >>
    /\ ops = << >>
    /\ eng = [rawTex |-> 0, rawFBO |-> 0,
              histTex |-> [i \in {0, 1} |-> 0],
              histFBO |-> [i \in {0, 1} |-> 0],
              vao |-> 0, progBlur |-> 0, progDraw |-> 0,
              ping |-> 0, iW |-> 0, iH |-> 0, sW |-> 0, sH |-> 0,
              isFirstFrame |-> TRUE]
    /\ gl = [tex |-> << >>, fbo |-> << >>, vao |-> {}, buf |-> {}, sh |-> {},
             bad |-> {}, nGen |-> 0, nDel |-> 0, nInit |-> 0, last |-> 0]
    /\ lastWrite = -1
    /\ ctx = HostIdle
    /\ present = "none"
    /\ crashed = FALSE

\* No pixel is followed while the interceptor is modelled as a whole.
NoPixel == [stage |-> "none"]

Init == InitEngine /\ px = NoPixel

----------------------------------------------------------------------------
(* The Bootstrap worker thread.                                            *)

\* __attribute__((constructor)) void init(){pthread_create(&t,0,mainthread,0);}
init ==
    /\ ~crashed
    /\ bpc = "unloaded"
    /\ bpc' = "sleep"
    /\ UNCHANGED << variant, lib, sym, calls, patched, orig, hookVars, crashed >>

\* sleep(1); GlossInit(true);
mt_sleep ==
    /\ ~crashed
    /\ bpc = "sleep"
    /\ bpc' = "open"
    /\ UNCHANGED << variant, lib, sym, calls, patched, orig, hookVars, crashed >>

\* GHandle h = GlossOpen("libEGL.so");   the library may not be found
mt_open ==
    /\ ~crashed
    /\ bpc = "open"
    /\ \E h \in {NULL, LibEGL} : lib' = h
    /\ calls' = [calls EXCEPT !.open = @ + 1]
    /\ bpc' = "symbol"
    /\ UNCHANGED << variant, sym, patched, orig, hookVars, crashed >>

\* void* s = (void*)GlossSymbol(h,"eglSwapBuffers",0);   may resolve to null
mt_symbol ==
    /\ ~crashed
    /\ bpc = "symbol"
    /\ \E a \in (IF lib = NULL THEN {NULL} ELSE {NULL, SwapAddr}) : sym' = a
    /\ calls' = [calls EXCEPT !.symbol = @ + 1,
                              !.names = @ \cup {"eglSwapBuffers"}]
    /\ bpc' = "hook"
    /\ UNCHANGED << variant, lib, patched, orig, hookVars, crashed >>

\* "blur", "neon", "smart": if(s) GlossHook(s, hook, &orig);
\* "zenith": GlossHook(GlossSymbol(..), hook, &orig);  no test of the address
ChecksSymbol(v) == v # "zenith"

\* Mutant of MainthreadExit: a failed attempt is tried again.
MainthreadExit_retry(s) == IF s = NULL THEN "open" ELSE "done"

\* return 0;  the thread ends after its single attempt
MainthreadExit(s) == "done"

mt_hook ==
    /\ ~crashed
    /\ bpc = "hook"
    /\ IF ChecksSymbol(variant) /\ sym = NULL
       THEN /\ bpc' = MainthreadExit(sym)
            /\ UNCHANGED << calls, crashed >>
       ELSE /\ calls' = [calls EXCEPT !.install = @ + 1]
            /\ IF sym = NULL
               \* GlossHook on the null address: the provider either refuses
               \* or writes its jump at address 0.
               THEN \/ bpc' = MainthreadExit(sym) /\ UNCHANGED crashed
                    \/ bpc' = "crash" /\ crashed' = TRUE
               ELSE bpc' = "GlossHook" /\ UNCHANGED crashed
    /\ UNCHANGED << variant, lib, sym, patched, orig, hookVars >>

\* Mutant of mainthreadStores: the worker also resets the ping index.
mainthreadStores_ping(globals) ==
    [globals EXCEPT !.orig = Trampoline, !.eng.ping = 0]

\* The globals of the library that mainthread stores to: its one statement
\* that names a global is GlossHook(s, (void*)hook, (void**)&orig), which
\* hands out the address of orig and of nothing else.
mainthreadStores(globals) == [globals EXCEPT !.orig = Trampoline]

\* Inside GlossHook: the target is redirected to the interceptor ...
GlossHook_patch ==
    /\ ~crashed
    /\ bpc = "GlossHook"
    /\ ~patched
    /\ patched' = TRUE
    /\ UNCHANGED << variant, bpc, lib, sym, calls, orig, hookVars, crashed >>

\* ... and the original function is written through the third argument.
\* Neither the provider's contract nor the code orders the two for another
\* thread: `orig` is a plain global read by the rendering thread.
GlossHook_store ==
    /\ ~crashed
    /\ bpc = "GlossHook"
    /\ orig = NULL
    /\ \E g \in {mainthreadStores([orig |-> orig, eng |-> eng])} :
          orig' = g.orig /\ eng' = g.eng
    /\ UNCHANGED << variant, bpc, lib, sym, calls, patched, hpc, call, ret,
                    fwd, ops, gl, lastWrite, ctx, px, present, crashed >>

\* GlossHook refuses the target; its result is not read by mainthread.
GlossHook_fail ==
    /\ ~crashed
    /\ bpc = "GlossHook"
    /\ ~patched /\ orig = NULL
    /\ bpc' = MainthreadExit(sym)
    /\ UNCHANGED << variant, lib, sym, calls, patched, orig, hookVars, crashed >>

GlossHook_return ==
    /\ ~crashed
    /\ bpc = "GlossHook"
    /\ patched /\ orig # NULL
    /\ bpc' = MainthreadExit(sym)
    /\ UNCHANGED << variant, lib, sym, calls, patched, orig, hookVars, crashed >>

----------------------------------------------------------------------------
(* The host's rendering thread.                                            *)

\* Mutant of SurfaceOk: the comparison admits the threshold itself.
SurfaceOk_inclusive(w) == w >= THRESHOLD

\* if(w>100) render(w,h);
SurfaceOk(w) == w > THRESHOLD

\* "smart" tests orig_swap on entry: if (orig_swap) {...} return EGL_FALSE;
GuardsOrig(v) == v = "smart"

HasOp(log, name) == \E i \in 1..Len(log) : log[i].op = name

IndexOf(log, name) == CHOOSE i \in 1..Len(log) : log[i].op = name

CountOp(log, name) == Cardinality({i \in 1..Len(log) : log[i].op = name})

\* The history slot written by pass 1 of the logged frame.
WrittenSlot(log) ==
    IF HasOp(log, "accum") THEN log[IndexOf(log, "accum")].a
    ELSE log[IndexOf(log, "copy")].a

Rendered(log) == HasOp(log, "output")

\* The host presents a frame while eglSwapBuffers is not redirected: the
\* real function runs and none of this library's code does.
host_swap ==
    /\ ~crashed
    /\ ~patched
    /\ hpc = "idle"
    /\ present' = "direct"
    /\ UNCHANGED << variant, bootVars, hpc, call, ret, fwd, ops, eng, gl,
                    lastWrite, ctx, px, crashed >>

\* What glLinkProgram may answer in an invocation: the driver is asked only
\* when the engine is initialised.
LinkOutcomes(e, w, h) ==
    IF SurfaceOk(w) /\ NeedsInit(e, w, h) THEN BOOLEAN ELSE {TRUE}

\* hook(d,s) up to the call of the original: the two eglQuerySurface calls
\* and render(w,h).  The host's GL state on entry and the outcome of the
\* driver's shader compiler are the environment's choice; rawOutcomes says
\* what glGenTextures may do for the raw texture (TRUE: it names one).
Entry(rawOutcomes) ==
    /\ \E d \in Displays, s \in Surfaces, w \in Widths, h \in Heights :
        /\ call' = [d |-> d, s |-> s, w |-> w, h |-> h]
        /\ fwd' = << >>
        /\ present' = "hook"
        /\ IF GuardsOrig(variant) /\ orig = NULL
           THEN /\ TRUE \in rawOutcomes
                /\ ret' = "EGL_FALSE"
                /\ hpc' = "idle"
                /\ ops' = << >>
                /\ UNCHANGED << eng, gl, lastWrite, ctx >>
           ELSE /\ SurfaceOk(w) /\ NeedsInit(eng, w, h)
                      => gl.nInit < MaxInits
                /\ FALSE \in rawOutcomes => SurfaceOk(w) /\ eng.rawTex = 0
                /\ \E rawOk \in rawOutcomes :
                   \E hc \in (IF rawOk THEN HostContexts(w, h)
                                       ELSE {HostDefault(w, h)}),
                      ok \in (IF rawOk THEN LinkOutcomes(eng, w, h)
                                       ELSE {TRUE}) :
                    LET s0 == [eng |-> eng, gl |-> gl, ctx |-> hc,
                               ops |-> << Op("query", w, h) >>,
                               cur |-> 0, pre |-> 0, linkOk |-> ok,
                               rawOk |-> rawOk]
                    IN
                    \E s1 \in {IF SurfaceOk(w) THEN render(s0, w, h, variant)
                                               ELSE s0} :
                    /\ ret' = "none"
                    /\ hpc' = "forward"
                    /\ ops' = s1.ops
                    /\ eng' = s1.eng
                    /\ gl' = s1.gl
                    /\ ctx' = [host |-> hc, now |-> s1.ctx]
                    /\ lastWrite' = IF Rendered(s1.ops)
                                    THEN WrittenSlot(s1.ops) ELSE lastWrite
    /\ UNCHANGED << variant, bootVars, px, crashed >>

\* The interceptor is entered and every glGen* call of the frame succeeds.
hook_entry ==
    /\ ~crashed
    /\ patched
    /\ hpc = "idle"
    /\ Entry({TRUE})

\* The interceptor is entered with the raw texture handle at 0, so that the
\* frame initialises the engine, and glGenTextures names no raw texture:
\* the handle stays at 0.  The frame is an ordinary one otherwise (the
\* host's context in its default state, the programs link).
hook_entry_fault ==
    /\ ~crashed
    /\ patched
    /\ hpc = "idle"
    /\ eng.rawTex = 0
    /\ Entry({FALSE})

\* return orig(d,s);   a call through a null orig ends the process.
\* When the original returns, the context is the host's again: what state
\* it is in at the next present is drawn on the next entry.
hook_forward ==
    /\ ~crashed
    /\ hpc = "forward"
    /\ IF orig = NULL
       THEN /\ crashed' = TRUE
            /\ hpc' = "crash"
            /\ UNCHANGED << ret, fwd, ops, ctx >>
       ELSE \E r \in EGLBooleans :
            /\ fwd' = Append(fwd, [d |-> call.d, s |-> call.s, r |-> r])
            /\ ops' = Append(ops, Op("forward", call.d, call.s))
            /\ ret' = r
            /\ hpc' = "idle"
            /\ ctx' = HostIdle
            /\ UNCHANGED crashed
    /\ UNCHANGED << variant, bootVars, call, eng, gl, lastWrite, px,
                    present >>

----------------------------------------------------------------------------

Next ==
    \/ init
    \/ mt_sleep
    \/ mt_open
    \/ mt_symbol
    \/ mt_hook
    \/ GlossHook_patch
    \/ GlossHook_store
    \/ GlossHook_fail
    \/ GlossHook_return
    \/ host_swap
    \/ hook_entry
    \/ hook_forward

Spec == Init /\ [][Next]_vars

\* The program on a driver whose glGenTextures may fail.
FaultNext ==
    \/ Next
    \/ hook_entry_fault

FaultSpec == Init /\ [][FaultNext]_vars

----------------------------------------------------------------------------
(* The fragment shaders, followed for one pixel.                           *)
(*                                                                         *)
(* Colour channels, texture coordinates and blend weights are fixed-point  *)
(* numbers in hundredths (One stands for 1.0); lumas are in 1/100000.  A   *)
(* shader result is an exact fraction per channel, [num, den], so that no  *)
(* rounding of the model decides an equality between colours.              *)

One == 100

Chan == {"r", "g", "b", "a"}
RGB  == {"r", "g", "b"}

Rgba(r, g, b, a) ==
    [c \in Chan |-> CASE c = "r" -> r [] c = "g" -> g
                      [] c = "b" -> b [] c = "a" -> a]

Abs(x) == IF x < 0 THEN -x ELSE x

Clamp(x, lo, hi) == IF x < lo THEN lo ELSE IF x > hi THEN hi ELSE x

Max5(S) == CHOOSE x \in S : \A y \in S : y <= x

Min5(S) == CHOOSE x \in S : \A y \in S : x <= y

\* sqrt, rounded down.
ISqrt(n) == CHOOSE r \in 0..200 : r * r <= n /\ n < (r + 1) * (r + 1)

\* GLSL smoothstep(e0, e1, x): 0 up to e0, 1 from e1 on, result in hundredths.
smoothstep(e0, e1, x) ==
    LET t == Clamp(((x - e0) * One) \div (e1 - e0), 0, One)
    IN  (t * t * (3 * One - 2 * t)) \div (One * One)

\* dot(c.rgb, vec3(0.299, 0.587, 0.114)), in 1/100000.
luma(c) == 299 * c["r"] + 587 * c["g"] + 114 * c["b"]

\* distance(v, center) with center = vec2(0.5), in hundredths.
CenterDistance(v) ==
    ISqrt((v[1] - 50) * (v[1] - 50) + (v[2] - 50) * (v[2] - 50))

\* Mutant of shadowProtect: a darker history gets no extra weight.
shadowProtect_off(result, hist, lC, lH) == [c \in Chan |-> result[c] * One]

\* if (lH < lC) { result = mix(result, hist, 0.05); }
\* result comes in with denominator One and goes out with One * One.
shadowProtect(result, hist, lC, lH) ==
    IF lH < lC
    THEN [c \in Chan |-> result[c] * (One - 5) + hist[c] * One * 5]
    ELSE [c \in Chan |-> result[c] * One]

\* "blur" pass 1: frag_blur.
frag_blur(v, curr, hist) ==
    LET lC       == luma(curr)
        lH       == luma(hist)
        diff     == Abs(lC - lH)
        velocity == smoothstep(2000, 30000, diff)
        factor   == 94 + ((35 - 94) * velocity) \div One
        result   == [c \in Chan |-> curr[c] * (One - factor) + hist[c] * factor]
        prot     == shadowProtect(result, hist, lC, lH)
        mask     == smoothstep(1, 12, CenterDistance(v))
    IN  [num |-> [c \in Chan |->
                    curr[c] * One * One * (One - mask) + prot[c] * mask],
         den |-> One * One * One]

\* "neon" pass 1: frag_neon of part_000.  hist is the history texel at the
\* zoomed coordinate.
frag_neon(v, curr, hist) ==
    LET mask  == smoothstep(12, 45, CenterDistance(v))
        decay == (smoothstep(40000, 90000, luma(curr)) * 96) \div One
        w     == (decay * mask) \div One
    IN  [num |-> [c \in Chan |->
                    curr[c] * One * (One - w) + hist[c] * 101 * w],
         den |-> One * One]

\* "zenith" pass 1: frag_neon of part_001.  dither is
\* (interleavedGradientNoise(gl_FragCoord.xy) - 0.5) * 0.015 in 1/10000.
frag_zenith(v, curr, hist, dither) ==
    LET mask     == smoothstep(5, 30, CenterDistance(v))
        diff     == ISqrt((curr["r"] - hist["r"]) * (curr["r"] - hist["r"])
                          + (curr["g"] - hist["g"]) * (curr["g"] - hist["g"])
                          + (curr["b"] - hist["b"]) * (curr["b"] - hist["b"]))
        ghostFix == One - smoothstep(20, 60, diff)
        l        == luma(curr)
        boost    == (smoothstep(40000, 90000, l) * 12) \div One
        decay    == ((86 + boost) * ghostFix) \div One
        finalHist == [c \in Chan |->
                        (IF l > 60000 THEN hist[c] * 101 ELSE hist[c] * One)
                        + dither]
        w        == (decay * mask) \div One
    IN  [num |-> [c \in Chan |->
                    curr[c] * One * (One - w) + finalHist[c] * w],
         den |-> One * One]

\* "smart" pass 1: smartFragmentShaderSource with uBlendFactor =
\* BLUR_STRENGTH = 0.60.  The shader has no mask.
smartFragment(curr, hist) ==
    LET diff == Abs(curr["r"] - hist["r"]) + Abs(curr["g"] - hist["g"])
                + Abs(curr["b"] - hist["b"])
        smartFactor == IF diff > 40 THEN 0 ELSE 60
    IN  [num |-> [c \in Chan |->
                    curr[c] * (One - smartFactor) + hist[c] * smartFactor],
         den |-> One]

\* "smart" draw shader: FragColor = texture(uTexture, vTexCoord);
drawFragment(t) == [num |-> t, den |-> 1]

\* Pass 1 of build b on one pixel.  first: the isFirstFrame branch of
\* "smart", which runs the draw shader on the raw texel.
AccumulationShader(b, in) ==
    CASE b = "blur"   -> frag_blur(in.v, in.curr, in.hist)
      [] b = "neon"   -> frag_neon(in.v, in.curr, in.hist)
      [] b = "zenith" -> frag_zenith(in.v, in.curr, in.hist, in.dither)
      [] b = "smart"  -> IF in.first THEN drawFragment(in.curr)
                         ELSE smartFragment(in.curr, in.hist)

\* sqrt(clamp(mn / (1.0 - mx + 0.001), 0.0, 1.0)) in hundredths, for mn and
\* mx in 1/100000.
casAmount(mn, mx) ==
    ISqrt(Clamp((mn * 10000) \div (100000 - mx + 100), 0, 10000))

\* mix(8.0, 5.0, amt * strength) in hundredths.
casMix(amt, strength) == 8 * One - (3 * strength * amt) \div One

\* Mutant of SharpenChannel: the division by 1 + 4 * peak is left out.
SharpenChannel_unnormalised(x, sum, m) ==
    [num |-> x * m - One * sum, den |-> m]

\* (x + sum * peak) / (1.0 + 4.0 * peak) with peak = -1.0 / m, as the exact
\* fraction (x * m - sum) / (m - 4), m in hundredths.
SharpenChannel(x, sum, m) ==
    [num |-> x * m - One * sum, den |-> m - 4 * One]

\* "blur" pass 2: frag_draw of main.cpp up to the sharpening, and its last
\* statement o = vec4(col.rgb, 1.0).  t holds the centre texel c and the
\* neighbours n, s, e, w.
frag_draw_blur(t) ==
    LET lC  == luma(t.c)
        ls  == {lC, luma(t.n), luma(t.s), luma(t.e), luma(t.w)}
        amt == casAmount(Min5(ls), Max5(ls))
        m   == casMix(amt, 88)
        sl  == SharpenChannel(lC, luma(t.n) + luma(t.s) + luma(t.e)
                                  + luma(t.w), m)
    IN  [sharp |-> [num |-> [c \in Chan |->
                               IF c \in RGB
                               THEN t.c[c] * 1000 * sl.den
                                    + sl.num - lC * sl.den
                               ELSE t.c[c] * 1000 * sl.den],
                    den |-> 1000 * sl.den],
         alpha |-> [num |-> One, den |-> 1],
         divisor |-> sl.den]

\* The sharpening of "neon" and "zenith" on all four channels, and o = col.
casVec4(t, m) ==
    LET sh == [c \in Chan |->
                 SharpenChannel(t.c[c],
                                t.n[c] + t.s[c] + t.e[c] + t.w[c], m)]
    IN  [sharp |-> [num |-> [c \in Chan |-> sh[c].num], den |-> m - 4 * One],
         alpha |-> [num |-> sh["a"].num, den |-> m - 4 * One],
         divisor |-> m - 4 * One]

\* "neon" pass 2: frag_draw of part_000; contrast from the green channel.
frag_draw_neon(t) ==
    LET gs  == {1000 * t.c["g"], 1000 * t.n["g"], 1000 * t.s["g"],
                1000 * t.e["g"], 1000 * t.w["g"]}
        amt == casAmount(Min5(gs), Max5(gs))
    IN  casVec4(t, casMix(amt, 70))

\* "zenith" pass 2: frag_draw of part_001; the strength follows the luma of
\* the undistorted texel rawCol.
frag_draw_zenith(t) ==
    LET gs  == {1000 * t.c["g"], 1000 * t.n["g"], 1000 * t.s["g"],
                1000 * t.e["g"], 1000 * t.w["g"]}
        amt == casAmount(Min5(gs), Max5(gs))
        darkProtect == smoothstep(0, 30000, luma(t.raw))
        finalStr == (90 * darkProtect) \div One
    IN  casVec4(t, casMix(amt, finalStr))

\* Pass 2 of build b on one pixel.
OutputShader(b, t) ==
    CASE b = "blur"   -> frag_draw_blur(t)
      [] b = "neon"   -> frag_draw_neon(t)
      [] b = "zenith" -> frag_draw_zenith(t)
      [] b = "smart"  -> [sharp |-> drawFragment(t.c),
                          alpha |-> [num |-> t.c["a"], den |-> 1],
                          divisor |-> 1]

\* Pixels the shaders are run on.
Coords == {<< 50, 50 >>, << 51, 50 >>, << 56, 50 >>, << 62, 50 >>,
           << 80, 50 >>, << 95, 50 >>, << 0, 0 >>}

Grey(x) == Rgba(x, x, x, One)

Colours == {Grey(0), Grey(50), Grey(51), Grey(70), Grey(One),
            Rgba(One, 0, 0, One), Rgba(50, 50, 50, 50)}

Texels == {Grey(0), Grey(50), Grey(One), Rgba(One, 0, 0, One),
           Rgba(50, 50, 50, 50), Rgba(50, 50, 50, 0)}

Dithers(b) == IF b = "zenith" THEN {-75, 0, 75} ELSE {0}

Firsts(b) == IF b = "smart" THEN BOOLEAN ELSE {FALSE}

NoResult == [den |-> 0]

\* Inputs of pass 1: the coordinate, the raw texel, the history texel.
Pass1Inputs(b) ==
    [v : Coords, curr : Colours, hist : Colours,
     dither : Dithers(b), first : Firsts(b)]

\* Inputs of pass 2: the history texel and its four neighbours (n = s and
\* e = w keep the set small), and the texel at the undistorted coordinate.
Pass2Inputs ==
    {[c |-> x[1], n |-> x[2], s |-> x[2], e |-> x[3], w |-> x[3],
      raw |-> x[4]] :
        x \in {y \in Texels \X Texels \X Texels \X Texels :
                 y[4] \in {y[1], y[2]}}}

PixelInit ==
    /\ InitEngine
    /\ \/ px \in [stage : {"pass1"}, in : Pass1Inputs(variant),
                  out : {NoResult}]
       \/ px \in [stage : {"pass2"}, in : Pass2Inputs, out : {NoResult}]

\* glDrawElements of pass 1, for the pixel followed.
accumulation_pass ==
    /\ px.stage = "pass1"
    /\ px' = [px EXCEPT !.stage = "accumulated",
                        !.out = AccumulationShader(variant, px.in)]
    /\ UNCHANGED << variant, bootVars, hpc, call, ret, fwd, ops, eng, gl,
                    lastWrite, ctx, present, crashed >>

\* glDrawElements of pass 2, for the pixel followed.
output_pass ==
    /\ px.stage = "pass2"
    /\ px' = [px EXCEPT !.stage = "drawn",
                        !.out = OutputShader(variant, px.in)]
    /\ UNCHANGED << variant, bootVars, hpc, call, ret, fwd, ops, eng, gl,
                    lastWrite, ctx, present, crashed >>

PixelNext ==
    \/ accumulation_pass
    \/ output_pass

PixelSpec == PixelInit /\ [][PixelNext]_vars

----------------------------------------------------------------------------
(* Properties.                                                             *)

\* A step in which the interceptor queries the surface (and renders).
HookEntered == hpc = "idle" /\ hpc' = "forward"

\* The last invocation of the interceptor is over: it returned or crashed.
HookOver == present = "hook" /\ hpc # "forward"

\* C1: every invocation of the interceptor calls the original present
\* function exactly once, after the output pass if the engine ran, with the
\* (display, surface) it received, and returns what the original returned.
C1_ForwardsExactlyOnce ==
    HookOver =>
        /\ Len(fwd) = 1
        /\ fwd[1].d = call.d /\ fwd[1].s = call.s
        /\ ret = fwd[1].r
        /\ ops[Len(ops)].op = "forward"
        /\ Rendered(ops) => IndexOf(ops, "output") < IndexOf(ops, "forward")

\* C2: in every interleaving of the Bootstrap worker with the rendering
\* thread, the original pointer is recorded whenever the interceptor runs:
\* no invocation calls through an unset pointer and none returns a failure
\* value without having forwarded.
C2_OrigRecordedWhenHookRuns ==
    /\ hpc = "forward" => orig # NULL
    /\ hpc # "crash"
    /\ (present = "hook" /\ hpc = "idle" /\ fwd = << >>) => ret # "EGL_FALSE"

\* C3: an invocation that queries the surface runs the render engine if and
\* only if the queried width is greater than 100; with a width of at most
\* 100 it leaves the engine globals and the GL objects as they were and
\* does nothing but forward the call.
C3_RendersIffWide ==
    /\ [][HookEntered =>
            /\ ops'[1] = Op("query", call'.w, call'.h)
            /\ Rendered(ops') <=> ops'[1].a > 100
            /\ ops'[1].a <= 100 =>
                 eng' = eng /\ gl' = gl /\ lastWrite' = lastWrite
                 /\ Len(ops') = 1]_vars
    /\ []((present = "hook" /\ hpc = "idle" /\ ops # << >> /\ call.w <= 100)
            => ops = << Op("query", call.w, call.h),
                        Op("forward", call.d, call.s) >>)

\* C3 witness: a narrow surface was presented through the interceptor after
\* the engine had been initialised, and the call was forwarded.
C3_Witness ==
    /\ present = "hook" /\ hpc = "idle" /\ call.w <= 100
    /\ Len(fwd) = 1 /\ eng.rawTex # 0 /\ eng.sW > 100

\* C4: when the symbol resolves to null the Bootstrap never calls install,
\* the interceptor is never invoked, the engine never runs and the host does
\* not crash.
C4_NullSymbolNeverInstalls ==
    (calls.symbol > 0 /\ sym = NULL) =>
        /\ calls.install = 0
        /\ ~patched
        /\ present # "hook"
        /\ gl.nInit = 0
        /\ ~crashed

\* C5: open, symbol and install are each called at most once, for the one
\* symbol eglSwapBuffers; a finished Bootstrap never runs again; the
\* interceptor once installed stays installed.
C5_OneShot ==
    /\ [](/\ calls.open <= 1 /\ calls.symbol <= 1 /\ calls.install <= 1
          /\ calls.names \subseteq {"eglSwapBuffers"})
    /\ [][bpc = "done" => bpc' = "done"]_vars
    /\ [][patched => patched']_vars
    /\ [][~patched /\ patched' => calls.install = 1 /\ bpc = "GlossHook"]_vars

\* C5 witness: the Bootstrap is over after one call of each operation and
\* the interceptor has served a frame.
C5_Witness ==
    /\ bpc = "done" /\ patched /\ present = "hook" /\ hpc = "idle"
    /\ calls.open = 1 /\ calls.symbol = 1 /\ calls.install = 1

Positions(log, name) == {i \in 1..Len(log) : log[i].op = name}

\* C7: a frame whose (width,height) differs from the previous frame's
\* releases the old raw and history targets once and allocates three new
\* ones, all before the copy and the passes; a frame at the stored size
\* releases and allocates no target.
C7_ResizeReallocatesOnce ==
    [][(HookEntered /\ Rendered(ops') /\ eng.rawTex # 0) =>
          IF call'.w # eng.sW \/ call'.h # eng.sH
          THEN /\ CountOp(ops', "release") = 1
               /\ ops'[IndexOf(ops', "release")] = Op("release", 3, 3)
               /\ CountOp(ops', "target") = 3
               /\ \A i \in Positions(ops', "target") :
                     /\ IndexOf(ops', "release") < i
                     /\ i < IndexOf(ops', "blit")
               /\ \A n \in {"accum", "copy", "output"} :
                     \A i \in Positions(ops', n) : IndexOf(ops', "blit") < i
               /\ Cardinality(DOMAIN gl'.tex) = 3
               /\ Cardinality(DOMAIN gl'.fbo) = 3
          ELSE /\ CountOp(ops', "release") = 0
               /\ CountOp(ops', "target") = 0
               /\ CountOp(ops', "init") = 0]_vars

\* C7 witness: a frame at an unchanged size follows a frame that resized.
C7_Witness ==
    /\ Rendered(ops) /\ ~HasOp(ops, "init")
    /\ gl.nInit >= 2 /\ gl.nDel > 0

C10_InternalAtLeastOne ==
    eng.sW > 100 =>
        /\ eng.iW = eng.sW \div 2 /\ eng.iH = eng.sH \div 2
        /\ eng.iW >= 1 /\ eng.iH >= 1
        /\ \A x \in DOMAIN gl.tex : gl.tex[x][1] >= 1 /\ gl.tex[x][2] >= 1

----------------------------------------------------------------------------
(* Failure handling and the host's GL state.                               *)

\* The framebuffers the engine draws to.
EngineTargets(e) == {e.rawFBO, e.histFBO[0], e.histFBO[1]}

\* Framebuffer 0 was drawn to by the logged invocation.
DrewToSurface(log) ==
    \E i \in 1..Len(log) : log[i].op = "draw" /\ log[i].a = 0

\* C11: while a framebuffer of the engine is incomplete, an invocation of
\* the interceptor issues neither the downscale copy nor a shader pass and
\* does not draw to framebuffer 0: the host's own frame is presented.
C11_FailSafeOnIncomplete ==
    (present = "hook" /\ gl.nInit > 0
     /\ \E f \in EngineTargets(eng) : ~Complete(gl, f)) =>
        /\ ~HasOp(ops, "blit")
        /\ ~HasOp(ops, "accum") /\ ~HasOp(ops, "copy")
        /\ ~HasOp(ops, "output")
        /\ ~DrewToSurface(ops)

\* C12: a program that failed to link is never stored as the accumulation
\* or the output program, and no pass hands one to glUseProgram: after a
\* failed link the engine goes on with the programs it had.
C12_FailedProgramNeverUsed ==
    /\ eng.progBlur \notin gl.bad
    /\ eng.progDraw \notin gl.bad
    /\ \A i \in 1..Len(ops) : ops[i].op = "useProgram" => ops[i].b = 1

\* C13: when the original present function is called, the GL state the
\* host can see (enables, viewport, framebuffer, program, vertex array,
\* active unit and texture bindings) is what it was on entry.
C13_HostStatePreserved ==
    hpc = "forward" => ctx.now = ctx.host

----------------------------------------------------------------------------
(* The double buffer.                                                      *)

\* Position in the log of the draw call of pass 1 (blend or first-frame copy).
Pass1(log) ==
    IF HasOp(log, "accum") THEN IndexOf(log, "accum") ELSE IndexOf(log, "copy")

\* C18: the ping index is always 0 or 1, and pass 1 of a frame never reads
\* the history slot it writes: the two slot numbers differ, the texture
\* attached to the framebuffer drawn to is history[cur], the texture on unit
\* 1 is history[pre], and the texture written is on neither unit.
C18_NeverReadsSlotItWrites ==
    /\ eng.ping \in {0, 1}
    /\ Rendered(ops) =>
         LET p == Pass1(ops) IN
         /\ ops[p].a \in {0, 1}
         /\ ops[p].a # ops[p].b
         /\ ops[p + 1].op = "draw"
         /\ ops[p + 1].a = eng.histFBO[ops[p].a]
         /\ gl.fbo[ops[p + 1].a] = eng.histTex[ops[p].a]
         /\ ops[p + 2].a = eng.rawTex
         /\ ops[p + 2].a # eng.histTex[ops[p].a]
         /\ ops[p].op = "accum" =>
              /\ ops[p].b = 1 - ops[p].a
              /\ ops[p + 2].b = eng.histTex[ops[p].b]
              /\ ops[p + 2].b # eng.histTex[ops[p].a]

\* C18 witness: after a resize a frame blended raw with slot 0 into slot 1.
C18_Witness ==
    /\ HasOp(ops, "accum") /\ gl.nInit >= 2
    /\ ops[Pass1(ops)].a = 1 /\ ops[Pass1(ops)].b = 0

\* C19 as stated: the index flips once per rendered frame, after pass 1 and
\* before the output pass.
C19_FlipBetweenPasses ==
    Rendered(ops) =>
        /\ CountOp(ops, "flip") = 1
        /\ Pass1(ops) < IndexOf(ops, "flip")
        /\ IndexOf(ops, "flip") < IndexOf(ops, "output")

\* C19 as amended: the index flips once per rendered frame, as the last
\* statement of the frame, after both passes; both passes use the value the
\* index had when the frame began.  An invocation that does not render
\* leaves the index alone.
C19_FlipAfterOutput ==
    [][HookEntered =>
          IF Rendered(ops')
          THEN /\ CountOp(ops', "flip") = 1
               /\ ops'[Len(ops')] = Op("flip", eng.ping, 1 - eng.ping)
               /\ Pass1(ops') < IndexOf(ops', "output")
               /\ IndexOf(ops', "output") < IndexOf(ops', "flip")
               /\ ops'[Pass1(ops')].a = eng.ping
               /\ ops'[IndexOf(ops', "output")].a = eng.ping
               /\ eng'.ping = 1 - eng.ping
          ELSE /\ CountOp(ops', "flip") = 0
               /\ eng'.ping = eng.ping]_vars

\* C19 witness: a frame flipped the index from 1 back to 0.
C19_Witness ==
    /\ Rendered(ops) /\ hpc = "forward"
    /\ ops[Len(ops)] = Op("flip", 1, 0) /\ eng.ping = 0

\* C20: the output pass draws to framebuffer 0 from the texture that pass 1
\* of the same frame drew to; and a frame that follows at the same size
\* reads as previous history the slot, and the very texture, that the
\* preceding rendered frame wrote.
C20_OutputReadsWhatWasWritten ==
    [][(HookEntered /\ Rendered(ops')) =>
          LET p == Pass1(ops')
              o == IndexOf(ops', "output")
          IN  /\ ops'[o].a = WrittenSlot(ops')
              /\ ops'[o + 1].op = "draw" /\ ops'[o + 1].a = 0
              /\ ops'[o + 2].a = gl'.fbo[ops'[p + 1].a]
              /\ ops'[o + 2].a = eng'.histTex[WrittenSlot(ops')]
              /\ ~HasOp(ops', "init") =>
                   /\ ops'[p].op = "accum"
                   /\ ops'[p].b = lastWrite
                   /\ ops'[p + 2].b = eng.histTex[lastWrite]
                   /\ eng'.histTex = eng.histTex
                   /\ gl'.fbo = gl.fbo]_vars

\* C20 witness: the second frame in a row at one size, which read slot 0
\* as previous history and wrote and showed slot 1.
C20_Witness ==
    /\ Rendered(ops) /\ ~HasOp(ops, "init") /\ hpc = "forward"
    /\ ops[Pass1(ops)] = Op("accum", 1, 0)
    /\ ops[IndexOf(ops, "output")].a = 1

----------------------------------------------------------------------------
(* The shaders.                                                            *)

\* The pixel followed lies where the mask of frag_blur is 1.
OutsideMask == smoothstep(1, 12, CenterDistance(px.in.v)) = One

\* The result o of frag_blur is curr * (1 - W) + hist * W, for the weight W
\* of history given in millionths.
IsBlend(o, curr, hist, w6) ==
    /\ o.den = 1000000
    /\ \A c \in Chan : o.num[c] = curr[c] * (1000000 - w6) + hist[c] * w6

\* C14: at the anchor coordinate (0.5, 0.5) the output of pass 1 is the raw
\* current colour, whatever the history holds, in every build.
C14_AnchorKeepsCurrent ==
    (px.stage = "accumulated" /\ px.in.v = << 50, 50 >>) =>
        \A c \in Chan : px.out.num[c] = px.in.curr[c] * px.out.den

\* C15 as stated: outside the mask, frag_blur weighs history by 0.94 when
\* the luma difference is below 0.02 and by 0.35 when it is above 0.30, for
\* every pair of colours.
C15_WeightIsMaxOrMin ==
    (variant = "blur" /\ px.stage = "accumulated" /\ OutsideMask) =>
        LET diff == Abs(luma(px.in.curr) - luma(px.in.hist)) IN
        /\ diff < 2000 => IsBlend(px.out, px.in.curr, px.in.hist, 940000)
        /\ diff > 30000 => IsBlend(px.out, px.in.curr, px.in.hist, 350000)

\* C15 as amended: those weights hold when the history is not darker than
\* the current colour; when it is darker, the shadow protection adds 5% of
\* the remainder, which gives 0.943 and 0.3825.
C15_WeightWithShadowProtection ==
    (variant = "blur" /\ px.stage = "accumulated" /\ OutsideMask) =>
        LET lC   == luma(px.in.curr)
            lH   == luma(px.in.hist)
            diff == Abs(lC - lH)
        IN  /\ (diff < 2000 /\ lH >= lC) =>
                  IsBlend(px.out, px.in.curr, px.in.hist, 940000)
            /\ (diff < 2000 /\ lH < lC) =>
                  IsBlend(px.out, px.in.curr, px.in.hist, 943000)
            /\ (diff > 30000 /\ lH >= lC) =>
                  IsBlend(px.out, px.in.curr, px.in.hist, 350000)
            /\ (diff > 30000 /\ lH < lC) =>
                  IsBlend(px.out, px.in.curr, px.in.hist, 382500)

\* C15 witness: frag_blur has run outside the mask on a history slightly
\* darker than the current colour.
C15_Witness ==
    /\ variant = "blur" /\ px.stage = "accumulated" /\ OutsideMask
    /\ luma(px.in.hist) < luma(px.in.curr)
    /\ luma(px.in.curr) - luma(px.in.hist) < 2000
    /\ IsBlend(px.out, px.in.curr, px.in.hist, 943000)

\* The five texels read by pass 2 are one colour.
Flat(t) == t.n = t.c /\ t.s = t.c /\ t.e = t.c /\ t.w = t.c /\ t.raw = t.c

\* C16: on a constant-colour input the sharpening returns the input colour
\* on every channel, and its divisor 1 + 4 * peak is never zero.
C16_FlatInputUnchanged ==
    px.stage = "drawn" =>
        /\ px.out.divisor # 0
        /\ px.out.sharp.den # 0
        /\ Flat(px.in) =>
             \A c \in Chan :
                 px.out.sharp.num[c] = px.in.c[c] * px.out.sharp.den

\* C16 witness: frag_draw of the "blur" build has sharpened a flat mid-grey
\* input, with the sharpening at work (mix(8, 5, ..) below 8).
C16_Witness ==
    /\ variant = "blur" /\ px.stage = "drawn" /\ Flat(px.in)
    /\ px.in.c = Grey(50)
    /\ px.out.divisor < 4 * One /\ px.out.divisor > 0

\* C17: pass 2 writes alpha = 1, whatever colour and alpha the history
\* texels hold, in every build.
C17_OutputOpaque ==
    px.stage = "drawn" => px.out.alpha.num = One * px.out.alpha.den

----------------------------------------------------------------------------
(* The frame as a sequence of steps.                                       *)

\* The steps of the frame in the order the log has them.
StepNames == {"init", "disable", "blit", "accum", "copy", "output"}

RECURSIVE Steps(_)
Steps(log) ==
    IF log = << >> THEN << >>
    ELSE IF Head(log).op \in StepNames
         THEN << IF Head(log).op = "copy" THEN "accum" ELSE Head(log).op >>
              \o Steps(Tail(log))
         ELSE Steps(Tail(log))

\* C21: a frame's steps are, in this order and once each: the size check,
\* with the initialisation if and only if the check asks for it; the three
\* glDisable calls; the copy of framebuffer 0 into raw; pass 1 into a
\* history framebuffer with the viewport at the internal size; pass 2 into
\* framebuffer 0 with the viewport at the surface size.  No test is enabled
\* at the copy or at either draw.
C21_StepsInOrder ==
    [][(HookEntered /\ Rendered(ops')) =>
          LET p == Pass1(ops')
              q == IndexOf(ops', "output")
              b == IndexOf(ops', "blit")
          IN
          /\ Steps(ops') =
                (IF NeedsInit(eng, call'.w, call'.h)
                 THEN << "init" >> ELSE << >>)
                \o << "disable", "blit", "accum", "output" >>
          /\ ops'[b] = Op("blit", eng'.rawFBO, 0)
          /\ ops'[p + 1].op = "draw"
          /\ ops'[p + 1].a = eng'.histFBO[ops'[p].a]
          /\ ops'[p + 3] = Op("state", 0, << eng'.iW, eng'.iH >>)
          /\ ops'[q + 1].op = "draw"
          /\ ops'[q + 1].a = 0
          /\ ops'[q + 3] = Op("state", 0, << call'.w, call'.h >>)
          /\ CountOp(ops', "draw") = 2]_vars

\* C21 witness: a frame at the stored size, entered with the host's tests
\* enabled, has run its four steps without an initialisation.
C21_Witness ==
    /\ hpc = "forward" /\ ctx.host.scissor /\ gl.nInit = 1
    /\ Steps(ops) = << "disable", "blit", "accum", "output" >>

\* The textures of the three offscreen targets.
EngineTextures(e) == {e.rawTex, e.histTex[0], e.histTex[1]}

\* C22: whenever the copy and the passes of a frame have run, the stored
\* size is the frame's size, the internal size is computed from it, and the
\* raw and both history textures, each attached to its framebuffer, are
\* live textures of that internal size: the copy and the passes of a frame
\* use no buffer allocated for another surface size.
C22_BuffersMatchFrame ==
    Rendered(ops) =>
        LET p == Pass1(ops)
            b == IndexOf(ops, "blit")
        IN
        /\ eng.sW = call.w /\ eng.sH = call.h
        /\ eng.iW = IntScale(call.w) /\ eng.iH = IntScale(call.h)
        /\ \A t \in EngineTextures(eng) :
              /\ t \in DOMAIN gl.tex
              /\ gl.tex[t][1] = IntScale(call.w)
              /\ gl.tex[t][2] = IntScale(call.h)
        /\ \A f \in EngineTargets(eng) : f \in DOMAIN gl.fbo
        /\ gl.fbo[eng.rawFBO] = eng.rawTex
        /\ \A i \in {0, 1} : gl.fbo[eng.histFBO[i]] = eng.histTex[i]
        /\ ops[b].a = eng.rawFBO
        /\ ops[p + 1].a \in {eng.histFBO[0], eng.histFBO[1]}
        /\ ops[p + 2].a = eng.rawTex
        /\ ops[p].op = "accum" =>
              ops[p + 2].b \in {eng.histTex[0], eng.histTex[1]}
        /\ ops[IndexOf(ops, "output") + 2].a
              \in {eng.histTex[0], eng.histTex[1]}

\* C22 witness: a 200 x 200 frame was rendered with 100 x 100 targets after
\* a frame of another size had been rendered.
C22_Witness ==
    /\ Rendered(ops) /\ gl.nInit = 2
    /\ call.w = 200 /\ call.h = 200
    /\ \A t \in EngineTextures(eng) : gl.tex[t][1] = 100 /\ gl.tex[t][2] = 100

----------------------------------------------------------------------------
(* Contents of the history targets.                                        *)

\* C23: in a frame that (re)initialises the engine both history slots are
\* cleared before pass 1 runs, and the history texture that pass 1 of that
\* frame samples holds the base colour in every texel: nothing undefined
\* and nothing drawn before the initialisation.
C23_FirstPassReadsClearedHistory ==
    (HasOp(ops, "init") /\ HasOp(ops, "accum")) =>
        LET p == Pass1(ops) IN
        /\ \A i \in Positions(ops, "clear") : i < p
        /\ {ops[i].a : i \in Positions(ops, "clear")} = {0, 1}
        /\ Complete(gl, eng.histFBO[ops[p].b]) =>
              gl.tex[eng.histTex[ops[p].b]][3] = "cleared"

----------------------------------------------------------------------------
(* Ownership of the GL objects.                                            *)

\* C24: once the engine has been initialised, exactly three textures and
\* three framebuffer objects are live, they are the raw and the two
\* history targets the engine stores, each framebuffer carries its texture,
\* and the stored vertex array and programs are live too; a frame that
\* initialises the engine stores the three targets it has just created and
\* has released the three it held before.
C24_TargetsReplacedAsUnit ==
    /\ [](gl.nInit > 0 =>
            /\ Cardinality(DOMAIN gl.tex) = 3
            /\ Cardinality(DOMAIN gl.fbo) = 3
            /\ EngineTextures(eng) = DOMAIN gl.tex
            /\ EngineTargets(eng) = DOMAIN gl.fbo
            /\ gl.fbo[eng.rawFBO] = eng.rawTex
            /\ \A i \in {0, 1} : gl.fbo[eng.histFBO[i]] = eng.histTex[i]
            /\ eng.vao \in gl.vao
            /\ {eng.progBlur, eng.progDraw} \subseteq gl.sh)
    /\ [][(HookEntered /\ HasOp(ops', "init")) =>
            /\ {ops'[i].b : i \in Positions(ops', "target")}
                  = EngineTextures(eng')
            /\ CountOp(ops', "target") = 3
            /\ eng.rawTex # 0 =>
                  /\ CountOp(ops', "release") = 1
                  /\ ops'[IndexOf(ops', "release")] = Op("release", 3, 3)
                  /\ \A i \in Positions(ops', "target") :
                        IndexOf(ops', "release") < i]_vars

\* C24 witness: the engine holds the targets of its second allocation, of
\* another size than the first.
C24_Witness ==
    /\ gl.nInit = 2 /\ gl.nDel = 7 /\ hpc = "idle"
    /\ Cardinality(DOMAIN gl.tex) = 3
    /\ \A t \in EngineTextures(eng) : gl.tex[t][1] = 100

\* Number of live GL objects the engine has created.
LiveObjects(g) ==
    Cardinality(DOMAIN g.tex) + Cardinality(DOMAIN g.fbo)
    + Cardinality(g.vao) + Cardinality(g.buf) + Cardinality(g.sh)

\* C25: an initialisation releases all that the one before created, the
\* shaders, the programs and the two buffers included: after every
\* initialisation the live objects are those of one initialisation, three
\* textures, three framebuffers, one vertex array, two buffers, three
\* shaders and two programs.
C25_ReinitReleasesEverything ==
    gl.nInit >= 1 =>
        /\ Cardinality(gl.sh) = 5
        /\ Cardinality(gl.buf) = 2
        /\ LiveObjects(gl) = 14

----------------------------------------------------------------------------
(* Thread confinement.                                                     *)

\* C26: a step of the Bootstrap worker leaves the render-engine globals,
\* the GL objects and the GL state as they are; the engine globals change
\* only in a step in which the rendering thread enters the interceptor; and
\* the original-function pointer is the one global the worker stores to,
\* the rendering thread never does.
C26_EngineThreadConfined ==
    /\ [][bootVars' # bootVars =>
            /\ eng' = eng /\ gl' = gl /\ ctx' = ctx
            /\ lastWrite' = lastWrite /\ ops' = ops]_vars
    /\ [][(eng' # eng \/ gl' # gl) =>
            /\ HookEntered
            /\ bootVars' = bootVars]_vars
    /\ [][orig' # orig =>
            /\ bpc = "GlossHook"
            /\ hpc' = hpc]_vars

\* C26 witness: the worker has stored the original pointer at a moment when
\* the rendering thread is inside the interceptor with the engine
\* initialised and the ping index at 1.
C26_Witness ==
    /\ bpc = "GlossHook" /\ orig # NULL
    /\ hpc = "forward" /\ gl.nInit = 1 /\ eng.ping = 1

----------------------------------------------------------------------------
(* The first-frame flag of the "smart" build.                              *)

\* C27: in the "smart" build a frame that initialises the engine runs
\* pass 1 with the draw program, whose one sampler is unit 0 with the raw
\* texture, into history[ping], and so reads no history; every other
\* rendered frame runs pass 1 with the blend program on the raw texture and
\* history[1 - ping].  The flag is clear after every rendered frame: it is
\* set by the initialisation alone and cleared by the frame's pass 1.
C27_FirstFrameCopiesRaw ==
    /\ []((variant = "smart" /\ gl.nInit >= 1) => ~eng.isFirstFrame)
    /\ [][(HookEntered /\ variant = "smart" /\ Rendered(ops')) =>
            LET p == Pass1(ops') IN
            /\ ops'[p - 1].op = "useProgram"
            /\ ops'[p + 1] = Op("draw", eng'.histFBO[eng.ping],
                                ops'[p + 1].b)
            /\ ops'[p + 2].a = eng'.rawTex
            /\ IF HasOp(ops', "init")
               THEN /\ ops'[p] = Op("copy", eng.ping, -1)
                    /\ ops'[p - 1].a = eng'.progDraw
                    /\ ~HasOp(ops', "accum")
               ELSE /\ ops'[p] = Op("accum", eng.ping, 1 - eng.ping)
                    /\ ops'[p - 1].a = eng'.progBlur
                    /\ ops'[p + 2].b = eng'.histTex[1 - eng.ping]
                    /\ ~HasOp(ops', "copy")
                    /\ ~eng.isFirstFrame]_vars

\* C27 witness: the frame after the first frame of the second
\* initialisation has blended raw with the slot that first frame wrote.
C27_Witness ==
    /\ variant = "smart" /\ gl.nInit = 2
    /\ HasOp(ops, "accum") /\ ~HasOp(ops, "init")
    /\ ops[Pass1(ops)].a = lastWrite /\ ops[Pass1(ops)].b = 1 - lastWrite

----------------------------------------------------------------------------
(* An initialisation that leaves the raw texture handle at 0.              *)

\* Live objects the engine created and stores no handle of.
OrphanTextures(e, g) == DOMAIN g.tex \ EngineTextures(e)

OrphanTargets(e, g) == DOMAIN g.fbo \ EngineTargets(e)

OrphanArrays(e, g) == g.vao \ {e.vao}

\* C28: when an initialisation has left the raw texture handle at 0, the
\* next frame that runs the engine initialises it again, at an unchanged
\* size too, and that initialisation does not enter the release branch: it
\* deletes nothing, and the history textures, the three framebuffers and
\* the vertex array of the failed attempt stay live with no handle stored
\* for them.  An object without a handle is never deleted afterwards.
C28_FailedInitLeaks ==
    /\ [][(HookEntered /\ gl.nInit >= 1 /\ eng.rawTex = 0
           /\ SurfaceOk(call'.w)) =>
            /\ HasOp(ops', "init")
            /\ ~HasOp(ops', "release")
            /\ gl'.nDel = gl.nDel
            /\ {eng.histTex[0], eng.histTex[1]} \subseteq
                  OrphanTextures(eng', gl')
            /\ EngineTargets(eng) \subseteq OrphanTargets(eng', gl')
            /\ eng.vao \in OrphanArrays(eng', gl')]_vars
    /\ [][/\ OrphanTextures(eng, gl) \subseteq OrphanTextures(eng', gl')
          /\ OrphanTargets(eng, gl) \subseteq OrphanTargets(eng', gl')
          /\ OrphanArrays(eng, gl) \subseteq OrphanArrays(eng', gl')]_vars

\* C28 witness: a second frame at the size of the first has initialised the
\* engine again after the first left the raw handle at 0, and two history
\* textures, three framebuffers and a vertex array are live without a
\* handle.
C28_Witness ==
    /\ gl.nInit = 2 /\ gl.nDel = 0 /\ HasOp(ops, "init")
    /\ Cardinality(OrphanTextures(eng, gl)) = 2
    /\ Cardinality(OrphanTargets(eng, gl)) = 3
    /\ Cardinality(OrphanArrays(eng, gl)) = 1

====
